---- MODULE Spec2Model ----
(***************************************************************************)
(* ImageNetDataset (src/src/dataset.py): construction of the lookup        *)
(* tables from a directory listing and labels.txt, __len__, and the        *)
(* global-index resolution of _calculate_image_folder_and_name.            *)
(*                                                                         *)
(* A folder name 'n<digits>' is modelled by int(folder_name[1:]), the key  *)
(* the code sorts by.  The image files of a folder holding L files are     *)
(* modelled by their numeric suffixes 1..L, so the sorted "images" list of *)
(* the folder is <<1, ..., L>> and images[k] (0-based) is k + 1.           *)
(***************************************************************************)
EXTENDS Integers, Sequences, FiniteSets, TLC

\* ---- bounds of the model ----
MaxFolders == 3
IdxSlack == 1

\* ---- program constants ----
VAL_FOLDER_SIZE == 50
TRAIN_MAX_FOLDER_SIZE == 1300

\* ---- inputs ----
FolderUniverse == 1..MaxFolders
TrainSizes == {0, 1, TRAIN_MAX_FOLDER_SIZE}
ValSizes == {VAL_FOLDER_SIZE - 1, VAL_FOLDER_SIZE}
Phases == {"train", "val", "test"}
SizesOf(ph) == IF ph = "train" THEN TrainSizes ELSE ValSizes

VARIABLES
    root_dir,          \* the file tree: listing of root_dir/phase and labels.txt
    phase,             \* self.phase
    status,            \* "new" | "ready" | "failed"
    error,             \* the exception that ended construction or a call
    classid_to_label,  \* self.classid_to_label
    folder_stats,      \* self._folder_stats : folder -> [id, len]
    folder_names,      \* self._folder_names
    dataset_len,       \* self._dataset_len
    pc,                \* "idle" | "loop" | "ret" | "raise"
    call,              \* "none" | "len" | "resolve"
    global_idx,        \* argument of the running resolve call
    folder_i,          \* local folder_i (val: global_idx // 50)
    sum_,              \* local sum_
    local_idx,         \* local local_idx
    ret                \* value returned by the last call: <<folder, image>> or <<length>>

fields == <<phase, classid_to_label, folder_stats, folder_names, dataset_len>>
locals == <<global_idx, folder_i, sum_, local_idx>>
vars == <<root_dir, phase, status, error, classid_to_label, folder_stats,
          folder_names, dataset_len, pc, call, global_idx, folder_i, sum_,
          local_idx, ret>>

None == <<>>

\* ---- Python list indexing: 0 <= i < n, or -n <= i < 0 counted from the end ----
PyIndexOK(n, i) == (0 - n) <= i /\ i < n
PyIndex(n, i) == IF i >= 0 THEN i + 1 ELSE n + i + 1

\* ---- sorted(listdir(...), key = int(folder_name[1:])) ----
RECURSIVE SortedByNumber(_)
SortedByNumber(S) ==
    IF S = {} THEN <<>>
    ELSE LET m == CHOOSE x \in S : \A y \in S : x <= y
         IN  <<m>> \o SortedByNumber(S \ {m})

ClassIdOf(f) == f - 1
LabelOf(f) == f

\* ---- _load_annotations ----
LoadAnnotations(tree) ==
    LET listing == tree.listing
        labels  == tree.labels
    IN  IF \E f \in labels : f \notin DOMAIN listing
        THEN [ok |-> FALSE, err |-> "FileNotFoundError"]
        ELSE [ok |-> TRUE, err |-> "",
              classid_to_label |-> [c \in {ClassIdOf(f) : f \in labels} |->
                                      LabelOf(c + 1)],
              folder_stats |-> [f \in labels |->
                                  [id |-> ClassIdOf(f), len |-> listing[f]]],
              folder_names |-> SortedByNumber(DOMAIN listing)]

\* ---- reduce(lambda x, y: x + y, [...]) over a non-empty list ----
RECURSIVE ReduceAdd(_)
ReduceAdd(s) ==
    IF Len(s) = 1 THEN s[1] ELSE s[1] + ReduceAdd(Tail(s))

\* ---- _get_len ----
GetLen(ph, stats, names) ==
    IF ph = "val"
    THEN [ok |-> TRUE, err |-> "",
          value |-> VAL_FOLDER_SIZE * Cardinality(DOMAIN stats)]
    ELSE IF \E k \in 1..Len(names) : names[k] \notin DOMAIN stats
         THEN [ok |-> FALSE, err |-> "KeyError"]
         ELSE IF Len(names) = 0
              THEN [ok |-> FALSE, err |-> "TypeError"]
              ELSE [ok |-> TRUE, err |-> "",
                    value |-> ReduceAdd([k \in 1..Len(names) |->
                                           stats[names[k]].len])]

\* ---- first approximation of the train branch ----
FirstFolder(g) == g \div TRAIN_MAX_FOLDER_SIZE
FirstSum(g) == TRAIN_MAX_FOLDER_SIZE * FirstFolder(g)

\* a val folder taken to hold one image less than it does
ValFolderShort(g) == g \div (VAL_FOLDER_SIZE - 1)

\* ---- val branch ----
ValFolder(g) == g \div VAL_FOLDER_SIZE
ValLocal(g) == g % VAL_FOLDER_SIZE

\* a strict test: the scan stops one index early, on the folder before the right one
LoopCondStrict(s, len, g) == s + len < g

\* a test that is off by one the other way: the scan runs past the folder of g
LoopCondPast(s, len, g) == s + len <= g + 1

\* ---- the test of the while loop ----
LoopCond(s, len, g) == s + len <= g

\* ---- the final lookup: folder_names[fi], then folder_stats[..]["images"][loc] ----
Lookup(names, stats, fi, loc) ==
    IF ~PyIndexOK(Len(names), fi)
    THEN [ok |-> FALSE, err |-> "IndexError"]
    ELSE LET f == names[PyIndex(Len(names), fi)]
         IN  IF f \notin DOMAIN stats
             THEN [ok |-> FALSE, err |-> "KeyError"]
             ELSE IF ~PyIndexOK(stats[f].len, loc)
                  THEN [ok |-> FALSE, err |-> "IndexError"]
                  ELSE [ok |-> TRUE, err |-> "",
                        value |-> <<f, PyIndex(stats[f].len, loc)>>]

\* ---- the length of the folder the loop looks at ----
LoopLen(names, stats, fi) ==
    IF ~PyIndexOK(Len(names), fi)
    THEN [ok |-> FALSE, err |-> "IndexError"]
    ELSE LET f == names[PyIndex(Len(names), fi)]
         IN  IF f \notin DOMAIN stats
             THEN [ok |-> FALSE, err |-> "KeyError"]
             ELSE [ok |-> TRUE, err |-> "", value |-> stats[f].len]

\* the scan keeps its running sum in the object instead of a local
ReadOnlyButLen ==
    /\ UNCHANGED <<root_dir, status, phase, classid_to_label, folder_stats,
                   folder_names>>
    /\ dataset_len' = IF pc = "loop" THEN sum_ ELSE dataset_len

\* ---- __len__, __getitem__ and _calculate_image_folder_and_name assign no attribute ----
ReadOnly == UNCHANGED <<root_dir, status, fields>>

TypeOK ==
    /\ status \in {"new", "ready", "failed"}
    /\ pc \in {"idle", "loop", "ret", "raise"}
    /\ call \in {"none", "len", "resolve"}

Init ==
    /\ phase \in Phases
    /\ \E listed \in SUBSET FolderUniverse :
         \E labels \in SUBSET FolderUniverse :
           \E sizes \in [listed -> SizesOf(phase)] :
              root_dir = [listing |-> sizes, labels |-> labels]
    /\ status = "new"
    /\ error = ""
    /\ classid_to_label = None
    /\ folder_stats = None
    /\ folder_names = None
    /\ dataset_len = 0
    /\ pc = "idle"
    /\ call = "none"
    /\ global_idx = 0
    /\ folder_i = 0
    /\ sum_ = 0
    /\ local_idx = 0
    /\ ret = None

\* ---- __init__ ----
Construct ==
    /\ status = "new"
    /\ IF phase \notin {"train", "val"}
       THEN /\ status' = "failed"
            /\ error' = "AssertionError"
            /\ UNCHANGED <<classid_to_label, folder_stats, folder_names,
                           dataset_len>>
       ELSE LET a == LoadAnnotations(root_dir)
            IN  IF ~a.ok
                THEN /\ status' = "failed"
                     /\ error' = a.err
                     /\ UNCHANGED <<classid_to_label, folder_stats,
                                    folder_names, dataset_len>>
                ELSE LET l == GetLen(phase, a.folder_stats, a.folder_names)
                     IN  /\ classid_to_label' = a.classid_to_label
                         /\ folder_stats' = a.folder_stats
                         /\ folder_names' = a.folder_names
                         /\ IF l.ok
                            THEN /\ dataset_len' = l.value
                                 /\ status' = "ready"
                                 /\ error' = ""
                            ELSE /\ status' = "failed"
                                 /\ error' = l.err
                                 /\ UNCHANGED dataset_len
    /\ UNCHANGED <<root_dir, phase, pc, call, locals, ret>>

\* ---- __len__ ----
CallLen ==
    /\ status = "ready"
    /\ pc = "idle"
    /\ pc' = "ret"
    /\ call' = "len"
    /\ ret' = <<dataset_len>>
    /\ error' = ""
    /\ ReadOnly
    /\ UNCHANGED locals

\* ---- _calculate_image_folder_and_name, entry; the val branch is straight-line ----
CallResolve(g) ==
    /\ call' = "resolve"
    /\ global_idx' = g
    /\ IF phase = "val"
       THEN LET r == Lookup(folder_names, folder_stats, ValFolder(g),
                            ValLocal(g))
            IN  /\ folder_i' = ValFolder(g)
                /\ local_idx' = ValLocal(g)
                /\ sum_' = 0
                /\ IF r.ok
                   THEN pc' = "ret" /\ ret' = r.value /\ error' = ""
                   ELSE pc' = "raise" /\ ret' = None /\ error' = r.err
       ELSE /\ folder_i' = FirstFolder(g)
            /\ sum_' = FirstSum(g)
            /\ local_idx' = 0
            /\ pc' = "loop"
            /\ ret' = None
            /\ error' = ""
    /\ ReadOnly

\* ---- one evaluation of the while test, and the body or the exit ----
LoopStep ==
    /\ pc = "loop"
    /\ LET l == LoopLen(folder_names, folder_stats, folder_i)
       IN  IF ~l.ok
           THEN /\ pc' = "raise"
                /\ error' = l.err
                /\ UNCHANGED <<folder_i, sum_, local_idx, ret>>
           ELSE IF LoopCond(sum_, l.value, global_idx)
                THEN /\ sum_' = sum_ + l.value
                     /\ folder_i' = folder_i + 1
                     /\ UNCHANGED <<pc, error, local_idx, ret>>
                ELSE LET r == Lookup(folder_names, folder_stats, folder_i,
                                     global_idx - sum_)
                     IN  /\ local_idx' = global_idx - sum_
                         /\ UNCHANGED <<folder_i, sum_>>
                         /\ IF r.ok
                            THEN pc' = "ret" /\ ret' = r.value
                                 /\ error' = ""
                            ELSE pc' = "raise" /\ ret' = None
                                 /\ error' = r.err
    /\ ReadOnly
    /\ UNCHANGED <<call, global_idx>>

\* ---- the call ends: the caller has the value or the exception, the frame is gone ----
Return ==
    /\ pc \in {"ret", "raise"}
    /\ pc' = "idle"
    /\ call' = "none"
    /\ global_idx' = 0
    /\ folder_i' = 0
    /\ sum_' = 0
    /\ local_idx' = 0
    /\ ret' = None
    /\ error' = ""
    /\ ReadOnly

Indices == (0 - IdxSlack)..(dataset_len + IdxSlack)

\* ---- __getitem__(global_idx), up to the image load ----
GetItem ==
    /\ status = "ready"
    /\ pc = "idle"
    /\ \E g \in Indices : CallResolve(g)

Next ==
    \/ Construct
    \/ CallLen
    \/ GetItem
    \/ LoopStep
    \/ Return

Spec == Init /\ [][Next]_vars

\* the datasets the scan runs on: train phase; the scan reads positions of
\* folder_names, not names, so the listed names are taken consecutive
TrainInit ==
    /\ Init
    /\ phase = "train"
    /\ DOMAIN root_dir.listing = 1..Cardinality(DOMAIN root_dir.listing)

\* a call that has entered the loop keeps running: the interpreter executes
\* the next test of the while statement
FairSpec == TrainInit /\ [][Next]_vars /\ WF_vars(LoopStep)

\* ---- the whole of _calculate_image_folder_and_name as a function of the index ----
RECURSIVE TrainScan(_, _, _)
TrainScan(fi, s, g) ==
    LET l == LoopLen(folder_names, folder_stats, fi)
    IN  IF ~l.ok
        THEN [ok |-> FALSE, err |-> l.err]
        ELSE IF LoopCond(s, l.value, g)
             THEN TrainScan(fi + 1, s + l.value, g)
             ELSE [ok |-> TRUE, err |-> "", pos |-> fi, local |-> g - s]

Resolve(g) ==
    IF phase = "val"
    THEN LET r == Lookup(folder_names, folder_stats, ValFolder(g), ValLocal(g))
         IN  IF r.ok
             THEN [ok |-> TRUE, err |-> "", pos |-> ValFolder(g),
                   local |-> ValLocal(g), value |-> r.value]
             ELSE [ok |-> FALSE, err |-> r.err]
    ELSE LET t == TrainScan(FirstFolder(g), FirstSum(g), g)
         IN  IF ~t.ok
             THEN [ok |-> FALSE, err |-> t.err]
             ELSE LET r == Lookup(folder_names, folder_stats, t.pos, t.local)
                  IN  IF r.ok
                      THEN [ok |-> TRUE, err |-> "", pos |-> t.pos,
                            local |-> t.local, value |-> r.value]
                      ELSE [ok |-> FALSE, err |-> r.err]

(***************************************************************************)
(* Vocabulary of the properties.  Folder positions are 0-based, as in the  *)
(* code.                                                                   *)
(***************************************************************************)
NumFolders == Len(folder_names)
Annotated == \A k \in 1..NumFolders : folder_names[k] \in DOMAIN folder_stats
LenAt(p) == folder_stats[folder_names[p + 1]].len

RECURSIVE CumBefore(_)
CumBefore(p) == IF p = 0 THEN 0 ELSE CumBefore(p - 1) + LenAt(p - 1)

Valid(g) == 0 <= g /\ g < dataset_len

\* the data is as the phase promises: every listed folder is annotated, a
\* train folder holds at most TRAIN_MAX_FOLDER_SIZE files, a val folder
\* exactly VAL_FOLDER_SIZE
WellFormed ==
    /\ status = "ready"
    /\ Annotated
    /\ \A p \in 0..(NumFolders - 1) :
          IF phase = "train"
          THEN LenAt(p) <= TRAIN_MAX_FOLDER_SIZE
          ELSE LenAt(p) = VAL_FOLDER_SIZE

\* reference prefix-sum lookup
RefPos(g) ==
    CHOOSE p \in 0..(NumFolders - 1) :
        CumBefore(p) <= g /\ g < CumBefore(p) + LenAt(p)
RefItem(g) ==
    <<folder_names[RefPos(g) + 1], g - CumBefore(RefPos(g)) + 1>>

Resolved == call = "resolve" /\ pc \in {"ret", "raise"}

\* the step-by-step call and the function agree (sanity of the model)
StepsAgree ==
    Resolved =>
        LET r == Resolve(global_idx)
        IN  /\ r.ok = (pc = "ret")
            /\ r.ok => (r.value = ret /\ r.pos = folder_i
                          /\ r.local = local_idx)
            /\ ~r.ok => r.err = error

(***************************************************************************)
(* Properties                                                              *)
(***************************************************************************)

\* C1: for every valid global_idx on well-formed data, in either phase, the
\* call returns, and the folder position and local index it computed satisfy
\* global_idx = (sum of the lengths of the folders before the position) +
\* local index, so that the pair returned is the one a prefix-sum lookup finds.
C1_ResolveIsPrefixSumLookup ==
    (Resolved /\ WellFormed /\ Valid(global_idx)) =>
        /\ pc = "ret"
        /\ global_idx = CumBefore(folder_i) + local_idx
        /\ ret = RefItem(global_idx)

\* C3: an index outside [0, length) ends in an index error and returns no
\* item, in both phases (stated where every listed folder is annotated, so
\* that no other error can end the call).
C3_OutOfRangeIsRejected ==
    (Resolved /\ status = "ready" /\ Annotated /\ ~Valid(global_idx)) =>
        (pc = "raise" /\ error = "IndexError")

\* C4: for every valid global_idx on well-formed data, in either phase, the
\* call reaches the lookup with 0 <= local_idx < length of the folder it
\* picked, the folder position itself being a position of the folder list.
C4_LocalIndexInRange ==
    (Resolved /\ WellFormed /\ Valid(global_idx)) =>
        /\ pc = "ret"
        /\ 0 <= folder_i /\ folder_i < NumFolders
        /\ 0 <= local_idx /\ local_idx < LenAt(folder_i)

\* a train lookup behind the first folder that lands on the last file of a folder
C4_Witness ==
    /\ Resolved /\ WellFormed /\ Valid(global_idx)
    /\ phase = "train" /\ pc = "ret"
    /\ folder_i > 0
    /\ FirstFolder(global_idx) < folder_i
    /\ local_idx = LenAt(folder_i) - 1

\* C5: length() is the sum of the lengths of the listed folders in train
\* phase, 0 when no folder is listed, and VAL_FOLDER_SIZE times the number of
\* listed folders in val phase.
C5_LengthFormula ==
    /\ (call = "len" /\ pc = "ret") =>
          ret = IF phase = "train"
                THEN <<CumBefore(NumFolders)>>
                ELSE <<VAL_FOLDER_SIZE * NumFolders>>
    /\ (status # "new" /\ phase = "train"
          /\ DOMAIN root_dir.listing = {} /\ root_dir.labels = {}) =>
          (status = "ready" /\ dataset_len = 0)

\* C6: construction fails whenever the listed folders and the folders of the
\* annotation feed differ, in both phases; after a successful construction
\* every listed folder has its statistics.
C6_MismatchIsFatal ==
    /\ (status # "new" /\ phase \in {"train", "val"}
          /\ root_dir.labels # DOMAIN root_dir.listing) => status = "failed"
    /\ status = "ready" => Annotated

\* C2: in train phase the folder position is monotonic in the index: for
\* valid i < j, the position resolve(i) ends on is <= the one resolve(j) ends on.
C2_TrainMonotonic ==
    (status = "ready" /\ pc = "idle" /\ WellFormed /\ phase = "train") =>
        LET res == [i \in 0..(dataset_len - 1) |-> Resolve(i)]
        IN  /\ \A i \in DOMAIN res : res[i].ok
            /\ \A i, j \in DOMAIN res : i < j => res[i].pos <= res[j].pos

\* C10: in train phase resolve maps the valid indices one-to-one onto the
\* (folder, image) pairs of the dataset: no two valid indices give the same
\* pair and every image of every listed folder is given by some valid index.
AllItems ==
    UNION {{<<folder_names[p + 1], k>> : k \in 1..LenAt(p)} :
            p \in 0..(NumFolders - 1)}
C10_TrainBijection ==
    (status = "ready" /\ pc = "idle" /\ WellFormed /\ phase = "train") =>
        LET res == {Resolve(j) : j \in 0..(dataset_len - 1)}
        IN  /\ \A r \in res : r.ok
            /\ {r.value : r \in res} = AllItems
            /\ Cardinality({r.value : r \in res}) = dataset_len

\* C7: in val phase with VAL_FOLDER_SIZE images in every folder, resolve(k*50)
\* and resolve(k*50+49) give the same folder, and resolve(k*50) and
\* resolve((k+1)*50) give different folders, one position apart.
C7_ValBlocks ==
    (Resolved /\ WellFormed /\ phase = "val" /\ Valid(global_idx)
       /\ global_idx % VAL_FOLDER_SIZE = 0) =>
        /\ pc = "ret"
        /\ LET a == Resolve(global_idx + VAL_FOLDER_SIZE - 1)
           IN  a.ok /\ a.value[1] = ret[1]
        /\ Valid(global_idx + VAL_FOLDER_SIZE) =>
              LET b == Resolve(global_idx + VAL_FOLDER_SIZE)
              IN  /\ b.ok
                  /\ b.value[1] # ret[1]
                  /\ b.pos = folder_i + 1

\* resolve(50) has returned and there is a folder behind its folder
C7_Witness ==
    /\ Resolved /\ WellFormed /\ phase = "val" /\ pc = "ret"
    /\ global_idx = VAL_FOLDER_SIZE
    /\ Valid(global_idx + VAL_FOLDER_SIZE)
    /\ ret[1] = folder_names[2]

\* C8: once the dataset is constructed, no step of length() or of a lookup,
\* valid or not, returning or raising, changes phase, classid_to_label,
\* folder_stats, folder_names or the stored length.
C8_LookupsReadOnly ==
    [][status = "ready" => (status' = "ready" /\ UNCHANGED fields)]_vars

\* a lookup of an index out of range has ended in an error, and the tables are there
C8_Witness ==
    /\ status = "ready" /\ call = "resolve" /\ pc = "raise"
    /\ ~Valid(global_idx)
    /\ dataset_len > 0 /\ NumFolders > 1 /\ Annotated

\* C9: in train phase, for a valid index on folders of at most
\* TRAIN_MAX_FOLDER_SIZE files, the scan stays on positions of the folder
\* list that are not behind the true position of the index, it ends there,
\* and it does end.
C9_ScanInBounds ==
    (call = "resolve" /\ pc \in {"loop", "ret", "raise"} /\ WellFormed
       /\ phase = "train" /\ Valid(global_idx)) =>
        /\ pc # "raise"
        /\ 0 <= folder_i /\ folder_i < NumFolders
        /\ folder_i <= RefPos(global_idx)
C9_ScanTerminates ==
    /\ []C9_ScanInBounds
    /\ (pc = "loop" /\ WellFormed /\ Valid(global_idx)) ~> (pc = "ret")

\* the scan went forward from its first approximation and stopped on the last folder
C9_Witness ==
    /\ Resolved /\ WellFormed /\ phase = "train" /\ pc = "ret"
    /\ Valid(global_idx)
    /\ FirstFolder(global_idx) > 0
    /\ folder_i > FirstFolder(global_idx)
    /\ folder_i = NumFolders - 1


====
